---- MODULE Spec2Model ----
(***************************************************************************)
(* muffin-metrics (src/muffin_metrics.py): the metrics client (connection  *)
(* lifecycle, pipeline, UDP chunking, TCP write), the plugin facade that   *)
(* creates clients, and the StatsD request middleware.                     *)
(*                                                                         *)
(* Representation.                                                         *)
(*  - A string (str or bytes) is a sequence of tokens; a token stands for  *)
(*    a run of ASCII characters and counts as one unit of length, so len() *)
(*    is Len.  The newline is the token NL.  Stat names, values and the    *)
(*    prefix never contain NL.  NonAscii is a character that               *)
(*    encode('ascii') refuses.                                             *)
(*  - Python's None for a list-valued or record-valued field is the empty  *)
(*    option <<>>, a present value x is <<x>>.  transport = 0 is None, a   *)
(*    transport object is its number 1, 2, ...                             *)
(*  - A client object is a record; wire is the list of calls its           *)
(*    transports have received (sendto, write, close), in order; last is   *)
(*    the outcome of the most recent call made on the client.              *)
(*  - The transports' sendto/write/close do not raise (asyncio transports  *)
(*    report I/O errors through the protocol, the tests use a MagicMock).  *)
(*  - time() is a monotonic clock read; now is its last reading.           *)
(***************************************************************************)
EXTENDS Integers, Sequences, FiniteSets, TLC

VARIABLES
    cfg,        \* Plugin.cfg: fail_silently, maxudpsize, prefix
    plugin,     \* Plugin after setup(): backends (name, scheme), default
    handle,     \* per caller: what Plugin.client() gave it
    client,     \* per caller: the client object
    scope,      \* per caller (history): batch scope open, inside a with, lines
                \* accepted since pipe(); of the last call: transport, pipeline and
                \* length of wire before it, sample skipped, line rendered
    nops,       \* per caller: number of calls made so far
    now,        \* last clock reading
    pc,         \* per request or call: position in its coroutine
    timer,      \* per request: Timer fields ms, start
    req,        \* per request or call: what was asked (request method, backend
                \* name, facade operation, helper and its arguments), handler outcome
    seen        \* per request or call: what its caller observes

vars == <<cfg, plugin, handle, client, scope, nops, now, pc, timer, req, seen>>

(***************************************************************************)
(* Bounds                                                                  *)
(***************************************************************************)
MaxOps == 5          \* calls a caller makes on its client
MaxTime == 1         \* clock readings 0..MaxTime
SmallUdpSize == 6    \* a maxudpsize that holds one short line
MidUdpSize == 12     \* a maxudpsize that holds two short lines
DefaultUdpSize == 512

\* the callers: one drives a client by hand, or two requests run concurrently
Clients == {1, 2}

NL == "\n"
None == <<>>
Some(x) == <<x>>
IsNone(o) == o = <<>>
Val(o) == o[1]

(***************************************************************************)
(* Classes and the scheme table                                            *)
(***************************************************************************)
Schemes == {"null", "tcp", "udp", "tcp+statsd", "udp+statsd", "http"}

backends_schemas(scheme) ==
    CASE scheme = "null" -> "NullClient"
      [] scheme = "tcp" -> "TCPClient"
      [] scheme = "udp" -> "UDPClient"
      [] scheme = "tcp+statsd" -> "TCPStatsdClient"
      [] scheme = "udp+statsd" -> "UDPStatsdClient"
      [] OTHER -> "TCPClient"

IsUDP(cls) == cls \in {"UDPClient", "UDPStatsdClient"}
IsTCP(cls) == cls \in {"TCPClient", "TCPStatsdClient"}
\* classes with StatsDMixin among their bases (incr, decr, timing, gauge)
HasStatsD(cls) == cls \in {"NullClient", "UDPStatsdClient", "TCPStatsdClient"}
\* classes whose send/build_message resolve to StatsDMixin's: the mixin comes
\* first in the bases of the two Statsd clients, last in NullClient's
StatsDFirst(cls) == cls \in {"UDPStatsdClient", "TCPStatsdClient"}

(***************************************************************************)
(* Inputs                                                                  *)
(***************************************************************************)
Prefixes == {<<"muffin.">>}
Stats == {<<"a">>, <<"b", "b">>}
Values == {<<"42">>}
\* rate and random() in percent: rate < 1 is pct < 100
Rates == {50, 100}
Draws == {25, 75}
RateStr(rate) == IF rate = 50 THEN "0.5" ELSE ToString(rate)

NoTransport == 0

AbstractClient_init(cls) ==
    [cls |-> cls, transport |-> NoTransport, pipeline |-> None,
     wire |-> <<>>, opened |-> 0, last |-> [op |-> "__init__", val |-> "None"]]

Returned(cl, op, val) == [cl EXCEPT !.last = [op |-> op, val |-> val]]

(***************************************************************************)
(* Transmit                                                                *)
(***************************************************************************)
\* a character outside ASCII, as one token
NonAscii == "U+00E9"

\* whether message.encode('ascii') succeeds; it raises a UnicodeEncodeError
\* on a character outside ASCII
IsAscii(message) == \A i \in 1..Len(message) : message[i] # NonAscii

\* message.encode('ascii'): one byte per ASCII character
Encode(message) == message

RECURSIVE UDPLoopKeep(_, _, _)
\* faulty variant: the frame is not emptied after it is sent
UDPLoopKeep(messages, data, maxudpsize) ==
    IF messages = <<>>
    THEN IF data # <<>> THEN <<data>> ELSE <<>>
    ELSE LET message == Head(messages)
         IN  IF Len(data \o message) + 1 > maxudpsize
             THEN <<data>> \o UDPLoopKeep(Tail(messages), data \o message \o <<NL>>, maxudpsize)
             ELSE UDPLoopKeep(Tail(messages), data \o message \o <<NL>>, maxudpsize)

RECURSIVE UDPLoop(_, _, _)
\* the while loop of UDPClient._send: the datagrams passed to sendto, in order
UDPLoop(messages, data, maxudpsize) ==
    IF messages = <<>>
    THEN IF data # <<>> THEN <<data>> ELSE <<>>
    ELSE LET message == Head(messages)
         IN  IF Len(data \o message) + 1 > maxudpsize
             THEN <<data>> \o UDPLoop(Tail(messages), message \o <<NL>>, maxudpsize)
             ELSE UDPLoop(Tail(messages), data \o message \o <<NL>>, maxudpsize)

Calls(op, tr, datas) ==
    [i \in 1..Len(datas) |-> [op |-> op, tr |-> tr, data |-> datas[i]]]

UDPClient_send(cl, messages, maxudpsize) ==
    IF cl.transport = NoTransport
    THEN Returned(cl, "_send", "False")
    ELSE IF \E i \in 1..Len(messages) : ~IsAscii(messages[i])
    \* the messages are all encoded before the first sendto
    THEN Returned(cl, "_send", "UnicodeEncodeError")
    ELSE LET encoded == [i \in 1..Len(messages) |-> Encode(messages[i])]
             datagrams == UDPLoop(encoded, <<>>, maxudpsize)
         IN  Returned([cl EXCEPT !.wire = @ \o Calls("sendto", cl.transport, datagrams)],
                      "_send", "None")

RECURSIVE Join(_, _)
\* sep.join(messages)
Join(sep, messages) ==
    IF messages = <<>> THEN <<>>
    ELSE IF Len(messages) = 1 THEN Head(messages)
    ELSE Head(messages) \o <<sep>> \o Join(sep, Tail(messages))

\* faulty variant: one write per message
TCPSendPerLine(cl, messages) ==
    IF cl.transport = NoTransport
    THEN Returned(cl, "_send", "False")
    ELSE Returned([cl EXCEPT !.wire = @ \o Calls("write", cl.transport,
                                 [i \in 1..Len(messages) |-> messages[i] \o <<NL>>])],
                  "_send", "None")

TCPClient_send(cl, messages) ==
    IF cl.transport = NoTransport
    THEN Returned(cl, "_send", "False")
    ELSE LET message == Join(NL, messages) \o <<NL>>
         IN  IF ~IsAscii(message)
             \* the argument of write is encoded before write is called
             THEN Returned(cl, "_send", "UnicodeEncodeError")
             ELSE Returned([cl EXCEPT !.wire = @ \o Calls("write", cl.transport, <<Encode(message)>>)],
                           "_send", "None")

NullClient_send(cl, messages) == Returned(cl, "_send", "False")

\* self._send(*messages), by class
LowSend(cl, messages, maxudpsize) ==
    IF IsUDP(cl.cls) THEN UDPClient_send(cl, messages, maxudpsize)
    ELSE IF IsTCP(cl.cls) THEN TCPClient_send(cl, messages)
    ELSE NullClient_send(cl, messages)

(***************************************************************************)
(* Formatting                                                              *)
(***************************************************************************)
\* AbstractClient.build_message: ' '.join((prefix + stat, value, round(time())))
GraphiteMessage(prefix, stat, value, t) ==
    Join(" ", <<prefix \o stat, value, <<ToString(t)>> >>)

\* StatsDMixin.build_message: "%s%s:%s"
StatsDMessage(prefix, stat, value) == prefix \o stat \o <<":">> \o value

build_message(cls, prefix, stat, value, t) ==
    IF StatsDFirst(cls) THEN StatsDMessage(prefix, stat, value)
    ELSE GraphiteMessage(prefix, stat, value, t)

(***************************************************************************)
(* Client operations                                                       *)
(***************************************************************************)
\* faulty variant: pipe() opens no buffer
PipeNoBuffer(cl) == Returned(cl, "pipe", "self")

\* faulty variant: an open pipeline is kept as it is
PipeKeeps(cl) ==
    Returned([cl EXCEPT !.pipeline = IF IsNone(@) THEN Some(<<>>) ELSE @], "pipe", "self")

\* AbstractClient.pipe, also __enter__
Pipe(cl) == Returned([cl EXCEPT !.pipeline = Some(<<>>)], "pipe", "self")

\* faulty variant: the line is put at the front of the pipeline
SendPrepends(cl, c, stat, value, rate, draw, t) ==
    IF rate < 100 /\ draw > rate
    THEN Returned(cl, "send", "None")
    ELSE LET message == build_message(cl.cls, c.prefix, stat, value, t)
         IN  IF message = <<>>
             THEN Returned(cl, "send", "None")
             ELSE IF IsNone(cl.pipeline)
                  THEN LET sent == LowSend(cl, <<message>>, c.maxudpsize)
                       IN  Returned(sent, "send", sent.last.val)
                  ELSE Returned([cl EXCEPT !.pipeline = Some(<<message>> \o Val(@))],
                                "send", "None")

\* AbstractClient.send
AbstractClient_send(cl, c, stat, value, rate, draw, t) ==
    IF rate < 100 /\ draw > rate
    THEN Returned(cl, "send", "None")
    ELSE LET message == build_message(cl.cls, c.prefix, stat, value, t)
         IN  IF message = <<>>
             THEN Returned(cl, "send", "None")
             ELSE IF IsNone(cl.pipeline)
                  THEN LET sent == LowSend(cl, <<message>>, c.maxudpsize)
                       IN  Returned(sent, "send", sent.last.val)
                  ELSE Returned([cl EXCEPT !.pipeline = Some(Append(Val(@), message))],
                                "send", "None")

\* StatsDMixin.send
StatsDMixin_send(cl, c, stat, value, rate, draw, t) ==
    LET v == IF rate < 100 THEN value \o <<"|@", RateStr(rate)>> ELSE value
    IN  AbstractClient_send(cl, c, stat, v, rate, draw, t)

\* client.send(stat, value, rate), by class
Send(cl, c, stat, value, rate, draw, t) ==
    IF StatsDFirst(cl.cls) THEN StatsDMixin_send(cl, c, stat, value, rate, draw, t)
    ELSE AbstractClient_send(cl, c, stat, value, rate, draw, t)

\* faulty variant: the transport is closed and cleared before the pipeline is flushed
DisconnectCloseFirst(cl, c) ==
    IF cl.transport = NoTransport
    THEN Returned(cl, "disconnect", "AttributeError")
    ELSE LET closed == [cl EXCEPT !.wire = @ \o Calls("close", cl.transport, <<None>>),
                                  !.transport = NoTransport]
             flushed == IF ~IsNone(cl.pipeline) /\ Val(cl.pipeline) # <<>>
                        THEN LowSend(closed, Val(cl.pipeline), c.maxudpsize)
                        ELSE closed
         IN  Returned([flushed EXCEPT !.pipeline = None], "disconnect", "None")

\* AbstractClient.disconnect; transport.close() on None is an AttributeError,
\* and an error raised by _send leaves before transport.close()
AbstractClient_disconnect(cl, c) ==
    LET flushing == ~IsNone(cl.pipeline) /\ Val(cl.pipeline) # <<>>
        flushed == IF flushing
                   THEN LowSend(cl, Val(cl.pipeline), c.maxudpsize)
                   ELSE cl
    IN  IF flushing /\ flushed.last.val = "UnicodeEncodeError"
        THEN Returned(cl, "disconnect", "UnicodeEncodeError")
        ELSE IF flushed.transport = NoTransport
        THEN Returned(flushed, "disconnect", "AttributeError")
        ELSE Returned([flushed EXCEPT
                          !.wire = @ \o Calls("close", flushed.transport, <<None>>),
                          !.transport = NoTransport,
                          !.pipeline = None],
                      "disconnect", "None")

\* faulty variant: NullClient inherits disconnect and closes its missing transport
NullDisconnectInherited(cl, c) ==
    IF cl.transport = NoTransport
    THEN Returned(cl, "disconnect", "AttributeError")
    ELSE Returned([cl EXCEPT !.pipeline = None], "disconnect", "None")

\* NullClient.disconnect
NullClient_disconnect(cl, c) ==
    LET flushed == IF ~IsNone(cl.pipeline) /\ Val(cl.pipeline) # <<>>
                   THEN LowSend(cl, Val(cl.pipeline), c.maxudpsize)
                   ELSE cl
    IN  Returned([flushed EXCEPT !.pipeline = None], "disconnect", "None")

Disconnect(cl, c) ==
    IF cl.cls = "NullClient" THEN NullClient_disconnect(cl, c)
    ELSE AbstractClient_disconnect(cl, c)

\* AbstractClient.__exit__(typ, value, tb): the bare raise re-raises the
\* exception of the with body, which is being handled while __exit__ runs
Exit(cl, c, value) ==
    IF value
    THEN Returned(cl, "__exit__", "BodyError")
    ELSE LET d == Disconnect(cl, c)
         IN  Returned(d, "__exit__", d.last.val)

\* UDPClient.connect / TCPClient.connect / NullClient.connect; ok is whether
\* the endpoint can be opened (an OSError otherwise)
Connect(cl, c, ok) ==
    IF cl.cls = "NullClient"
    THEN Returned(cl, "connect", "self")
    ELSE IF ok
    THEN Returned([cl EXCEPT !.transport = cl.opened + 1, !.opened = @ + 1],
                  "connect", "self")
    ELSE IF IsTCP(cl.cls) /\ c.fail_silently
    THEN Returned(cl, "connect", "False")
    ELSE Returned(cl, "connect", "OSError")

(***************************************************************************)
(* StatsD helpers and Timer                                                *)
(***************************************************************************)
\* StatsDMixin.incr: self.send(stat, "%s|c" % count, rate)
Incr(cl, c, stat, count, rate, draw, t) ==
    LET r == Send(cl, c, stat, <<ToString(count), "|c">>, rate, draw, t)
    IN  Returned(r, "incr", r.last.val)

\* StatsDMixin.timing: self.send(stat, "%d|ms" % delta, rate)
Timing(cl, c, stat, delta, rate, draw, t) ==
    LET r == Send(cl, c, stat, <<ToString(delta), "|ms">>, rate, draw, t)
    IN  Returned(r, "timing", r.last.val)

\* StatsDMixin.decr: self.incr(stat, -count, rate)
Decr(cl, c, stat, count, rate, draw, t) ==
    LET r == Incr(cl, c, stat, -count, rate, draw, t)
    IN  Returned(r, "decr", r.last.val)

\* StatsDMixin.gauge: self.send(stat, "%s|g" % value), its rate is not
\* handed on and send takes its default rate=1
Gauge(cl, c, stat, value, rate, draw, t) ==
    LET r == Send(cl, c, stat, <<ToString(value), "|g">>, 100, draw, t)
    IN  Returned(r, "gauge", r.last.val)

Timer_init == [ms |-> None, start |-> None]
Timer_start(tm, t) == [ms |-> None, start |-> Some(t)]
\* int(round(1000 * (time() - self._start))), the clock counting seconds
Timer_stop(tm, t) == [tm EXCEPT !.ms = Some(1000 * (t - Val(tm.start)))]

(***************************************************************************)
(* Plugin                                                                  *)
(***************************************************************************)
\* names: "" is None (both are false in `name or self.default`)
BackendNames(backends) == {backends[i].name : i \in 1..Len(backends)}
\* backends_hash[name].scheme: in the dict the last pair of a name wins
BackendScheme(backends, name) ==
    backends[CHOOSE i \in 1..Len(backends) :
                 /\ backends[i].name = name
                 /\ \A j \in (i+1)..Len(backends) : backends[j].name # name].scheme

\* Plugin.setup: default falls back to the first backend; a default that is
\* not a backend is a PluginException
Setup(backends, default) ==
    LET d == IF default = "" /\ Len(backends) > 0 THEN backends[1].name ELSE default
    IN  [backends |-> backends, default |-> d,
         error |-> IF d # "" /\ d \notin BackendNames(backends)
                   THEN "PluginException" ELSE "None"]

\* Plugin.client(name): what the caller gets, and the client object built
PluginClient(p, c, name, ok) ==
    LET n == IF name # "" THEN name ELSE p.default
    IN  IF n = ""
        THEN [handle |-> "client", obj |-> AbstractClient_init("NullClient")]
        ELSE IF n \notin BackendNames(p.backends)
        THEN [handle |-> "KeyError", obj |-> AbstractClient_init("none")]
        ELSE LET ccls == backends_schemas(BackendScheme(p.backends, n))
                 obj == Connect(AbstractClient_init(ccls), c, ok)
             IN  [handle |-> IF obj.last.val = "self" THEN "client" ELSE obj.last.val,
                  obj |-> obj]

(***************************************************************************)
(* Initial states: the plugin after setup()                                *)
(***************************************************************************)
UdpSizes == {SmallUdpSize, MidUdpSize, DefaultUdpSize}
BackendLists == {<<>>} \cup {<<[name |-> "b", scheme |-> s]>> : s \in Schemes}
Names == {"", "zz"}
Methods == {"GET", "POST"}
Outcomes == {"response", "HTTPException", "Exception"}
\* response.status / exc.status_code of the handler's outcome
StatusOf(outcome) == IF outcome = "response" THEN "200" ELSE "302"

DefaultClass(p) ==
    IF p.default \in BackendNames(p.backends)
    THEN backends_schemas(BackendScheme(p.backends, p.default))
    ELSE "NullClient"

NoScope ==
    [open |-> FALSE, with |-> FALSE, lines |-> <<>>,
     preT |-> NoTransport, preP |-> None, mark |-> 0, skip |-> FALSE, line |-> <<>>,
     held |-> <<>>]

\* everything but the configuration
Fresh ==
    /\ handle = [c \in Clients |-> "unset"]
    /\ client = [c \in Clients |-> AbstractClient_init("none")]
    /\ scope = [c \in Clients |-> NoScope]
    /\ nops = [c \in Clients |-> 0]
    /\ now = 0
    /\ pc = [c \in Clients |-> "init"]
    /\ timer = [c \in Clients |-> Timer_init]
    /\ req = [c \in Clients |-> [method |-> "", outcome |-> "", called |-> FALSE]]
    /\ seen = [c \in Clients |-> "pending"]

Init ==
    /\ cfg \in [fail_silently : BOOLEAN, maxudpsize : UdpSizes, prefix : Prefixes]
    /\ plugin \in {Setup(b, d) : b \in BackendLists, d \in Names}
    \* maxudpsize is read by the UDP clients only
    /\ IsUDP(DefaultClass(plugin)) \/ cfg.maxudpsize = DefaultUdpSize
    /\ Fresh

(***************************************************************************)
(* A caller driving one client through its public methods                  *)
(***************************************************************************)
ApiCallers == {1}

\* history kept beside the call: the client's fields before it
Before(c) ==
    [scope[c] EXCEPT !.preT = client[c].transport, !.preP = client[c].pipeline,
                     !.mark = Len(client[c].wire), !.skip = FALSE, !.line = <<>>]

\* history: the lines a pipeline has taken since one was opened on a client
\* that had none; it starts anew when the next pipeline is opened from None
Held(c) == IF IsNone(client[c].pipeline) THEN <<>> ELSE scope[c].held

CanCall(c) ==
    /\ c \in ApiCallers
    /\ plugin.error = "None"
    /\ nops[c] < MaxOps

Called(c, cl, sc) ==
    /\ client' = [client EXCEPT ![c] = cl]
    /\ scope' = [scope EXCEPT ![c] = sc]
    /\ nops' = [nops EXCEPT ![c] = @ + 1]
    /\ UNCHANGED <<cfg, plugin, pc, timer, req, seen>>

\* client = yield from plugin.client(name)
ApiClient(c) ==
    /\ CanCall(c)
    /\ handle[c] = "unset"
    /\ \E name \in Names, ok \in BOOLEAN :
          LET res == PluginClient(plugin, cfg, name, ok)
          IN  /\ handle' = [handle EXCEPT ![c] = res.handle]
              /\ client' = [client EXCEPT ![c] = res.obj]
              /\ scope' = [scope EXCEPT ![c] = Before(c)]
              \* the name asked for is kept beside the call
              /\ req' = [req EXCEPT ![c].method = name, ![c].called = TRUE]
    /\ nops' = [nops EXCEPT ![c] = @ + 1]
    /\ UNCHANGED <<cfg, plugin, pc, timer, seen, now>>

\* any method call on the False that a silenced connect returned
ApiUseFalse(c) ==
    /\ CanCall(c)
    /\ handle[c] = "False"
    /\ Called(c, Returned(client[c], "call", "AttributeError"), Before(c))
    /\ UNCHANGED <<handle, now>>

\* yield from client.connect()
ApiConnect(c) ==
    /\ CanCall(c)
    /\ handle[c] = "client"
    /\ \E ok \in BOOLEAN : Called(c, Connect(client[c], cfg, ok), Before(c))
    /\ UNCHANGED <<handle, now>>

\* client.pipe()
ApiPipe(c) ==
    /\ CanCall(c)
    /\ handle[c] = "client"
    /\ Called(c, Pipe(client[c]),
              [Before(c) EXCEPT !.open = TRUE, !.lines = <<>>, !.held = Held(c)])
    /\ UNCHANGED <<handle, now>>

\* with client: ...
ApiEnter(c) ==
    /\ CanCall(c)
    /\ handle[c] = "client"
    /\ ~scope[c].with
    /\ Called(c, Returned(Pipe(client[c]), "__enter__", "self"),
              [Before(c) EXCEPT !.open = TRUE, !.with = TRUE, !.lines = <<>>,
                                !.held = Held(c)])
    /\ UNCHANGED <<handle, now>>

\* client.send(stat, value, rate); the clock is read by the Graphite
\* build_message, after the sample is drawn
ApiSend(c) ==
    /\ CanCall(c)
    /\ handle[c] = "client"
    /\ \E stat \in Stats, value \in Values, rate \in Rates, draw \in Draws :
          LET skip == rate < 100 /\ draw > rate
              reads == ~skip /\ ~StatsDFirst(client[c].cls)
          IN  \E t \in now..MaxTime :
                 /\ reads \/ t = now
                 /\ now' = t
                 /\ LET kept == ~skip /\ ~IsNone(client[c].pipeline)
                        v == IF StatsDFirst(client[c].cls) /\ rate < 100
                             THEN value \o <<"|@", RateStr(rate)>> ELSE value
                        line == build_message(client[c].cls, cfg.prefix, stat, v, t)
                    IN  Called(c, Send(client[c], cfg, stat, value, rate, draw, t),
                               [Before(c) EXCEPT
                                   !.skip = skip,
                                   !.line = IF skip THEN <<>> ELSE line,
                                   !.lines = IF kept THEN Append(@, line) ELSE @,
                                   !.held = IF kept THEN Append(@, line) ELSE @])
    /\ UNCHANGED handle

\* leaving the with block, normally or with the body's exception
ApiExit(c) ==
    /\ CanCall(c)
    /\ handle[c] = "client"
    /\ scope[c].with
    /\ \E value \in BOOLEAN :
          Called(c, Exit(client[c], cfg, value),
                 [Before(c) EXCEPT !.open = FALSE, !.with = FALSE])
    /\ UNCHANGED <<handle, now>>

\* client.disconnect()
ApiDisconnect(c) ==
    /\ CanCall(c)
    /\ handle[c] = "client"
    /\ Called(c, Disconnect(client[c], cfg), [Before(c) EXCEPT !.open = FALSE])
    /\ UNCHANGED <<handle, now>>

(***************************************************************************)
(* statsd_middleware_factory.middleware, one run per request.  The code    *)
(* between two suspension points (the connect inside plugin.client(), the  *)
(* wrapped handler) is one step; the clock readings of one step are equal. *)
(***************************************************************************)
\* faulty variant: client() hands every request the same Client object
ClientShared(c) == 1

\* the Client object of request c: every call of client() builds a new
\* instance, whose transport and pipeline are instance attributes
ClientOf(c) == c

\* from the value of plugin.client() to the call of the handler:
\* statsd.pipe(); pipe.incr('request.method.%s' % request.method)
MwPiped(c, res, method, t) ==
    /\ handle' = [handle EXCEPT ![c] = res.handle]
    /\ IF res.handle = "client"
       THEN LET piped == Pipe(res.obj)
                line == build_message(piped.cls, cfg.prefix,
                                      <<"request.method.", method>>, <<"1", "|c">>, t)
            IN  /\ client' = [client EXCEPT ![ClientOf(c)] =
                       Incr(piped, cfg, <<"request.method.", method>>, 1, 100, 0, t)]
                /\ scope' = [scope EXCEPT ![c] =
                       [NoScope EXCEPT !.open = TRUE, !.lines = <<line>>]]
                /\ pc' = [pc EXCEPT ![c] = "handler"]
                /\ req' = [req EXCEPT ![c].method = method, ![c].called = TRUE]
                /\ seen' = seen
       ELSE /\ client' = [client EXCEPT ![ClientOf(c)] = res.obj]
            /\ scope' = scope
            /\ pc' = [pc EXCEPT ![c] = "done"]
            /\ req' = [req EXCEPT ![c].method = method]
            \* False has no pipe(); an error of client() propagates
            /\ seen' = [seen EXCEPT ![c] =
                   IF res.handle = "False" THEN "AttributeError" ELSE res.handle]

\* timer.start(); statsd = yield from app.ps.metrics.client(): without a
\* default backend client() returns a NullClient without suspending
MwBegin(c) ==
    /\ pc[c] = "init"
    /\ \E method \in Methods, t \in now..MaxTime :
          /\ now' = t
          /\ timer' = [timer EXCEPT ![c] = Timer_start(@, t)]
          /\ IF plugin.default = ""
             THEN MwPiped(c, PluginClient(plugin, cfg, "", TRUE), method, t)
             ELSE /\ pc' = [pc EXCEPT ![c] = "connect"]
                  /\ req' = [req EXCEPT ![c].method = method]
                  /\ UNCHANGED <<handle, client, scope, seen>>
    /\ UNCHANGED <<cfg, plugin, nops>>

\* the connect of plugin.client() ends, well or with an OSError
MwConnected(c) ==
    /\ pc[c] = "connect"
    /\ \E ok \in BOOLEAN :
          MwPiped(c, PluginClient(plugin, cfg, "", ok), req[c].method, now)
    /\ UNCHANGED <<cfg, plugin, nops, now, timer>>

\* the handler ends; the except clauses and the finally block
MwHandled(c) ==
    /\ pc[c] = "handler"
    /\ \E outcome \in Outcomes, t \in now..MaxTime :
          LET stat == IF outcome = "Exception" THEN <<"response.exception">>
                      ELSE <<"response.status.", StatusOf(outcome)>>
              counted == Incr(client[ClientOf(c)], cfg, stat, 1, 100, 0, t)
              stopped == Timer_stop(timer[c], t)
              timed == Timing(counted, cfg, <<"response.time">>, Val(stopped.ms), 100, 0, t)
              closed == Disconnect(timed, cfg)
              l2 == build_message(client[ClientOf(c)].cls, cfg.prefix, stat, <<"1", "|c">>, t)
              l3 == build_message(client[ClientOf(c)].cls, cfg.prefix, <<"response.time">>,
                                  <<ToString(Val(stopped.ms)), "|ms">>, t)
          IN  /\ now' = t
              /\ timer' = [timer EXCEPT ![c] = stopped]
              /\ client' = [client EXCEPT ![ClientOf(c)] = closed]
              /\ scope' = [scope EXCEPT ![c] =
                     [@ EXCEPT !.open = FALSE, !.lines = @ \o <<l2, l3>>,
                               !.preT = timed.transport, !.preP = timed.pipeline,
                               !.mark = Len(timed.wire)]]
              /\ req' = [req EXCEPT ![c].outcome = outcome]
              \* an error raised in the finally block replaces the outcome
              /\ seen' = [seen EXCEPT ![c] =
                     IF closed.last.val = "None" THEN outcome ELSE closed.last.val]
              /\ pc' = [pc EXCEPT ![c] = "done"]
    /\ UNCHANGED <<cfg, plugin, handle, nops>>

\* the middleware calls incr and timing: its default backend is a StatsD one
InitMw ==
    /\ cfg \in [fail_silently : BOOLEAN, maxudpsize : UdpSizes, prefix : Prefixes]
    /\ plugin \in {Setup(b, d) : b \in BackendLists, d \in Names}
    /\ IsUDP(DefaultClass(plugin)) \/ cfg.maxudpsize = DefaultUdpSize
    /\ plugin.error = "None"
    /\ HasStatsD(DefaultClass(plugin))
    /\ Fresh

NextMw ==
    \E c \in Clients :
        \/ MwBegin(c)
        \/ MwConnected(c)
        \/ MwHandled(c)

SpecMw == InitMw /\ [][NextMw]_vars

Next ==
    \E c \in Clients :
        \/ ApiClient(c)
        \/ ApiUseFalse(c)
        \/ ApiConnect(c)
        \/ ApiPipe(c)
        \/ ApiEnter(c)
        \/ ApiSend(c)
        \/ ApiExit(c)
        \/ ApiDisconnect(c)

Spec == Init /\ [][Next]_vars

(***************************************************************************)
(* UDPClient._send on its own: a connected UDP client, any lines, any      *)
(* maxudpsize.  The lines are kept in pipeline[1] beside the call.         *)
(***************************************************************************)
MaxLines == 3        \* lines passed to one _send
MaxLineLen == 2      \* length of a line
MaxSize == 7         \* maxudpsize 1..MaxSize

Bytes == {"x", "y"}
RECURSIVE SeqsUpTo(_, _)
\* the sequences over S of length at most n
SeqsUpTo(S, n) ==
    IF n = 0 THEN {<<>>}
    ELSE LET shorter == SeqsUpTo(S, n - 1)
         IN  shorter \cup {Append(q, x) : q \in shorter, x \in S}

Lines == SeqsUpTo(Bytes, MaxLineLen) \ {<<>>}

InitUdp ==
    /\ cfg \in [fail_silently : {FALSE}, maxudpsize : 1..MaxSize, prefix : Prefixes]
    /\ plugin = Setup(<<[name |-> "b", scheme |-> "udp"]>>, "")
    /\ handle = [c \in Clients |-> IF c = 1 THEN "client" ELSE "unset"]
    /\ \E messages \in SeqsUpTo(Lines, MaxLines) :
          client = [c \in Clients |->
                       IF c = 1
                       THEN [Connect(AbstractClient_init("UDPClient"), cfg, TRUE)
                                EXCEPT !.pipeline = Some(messages)]
                       ELSE AbstractClient_init("none")]
    /\ scope = [c \in Clients |-> NoScope]
    /\ nops = [c \in Clients |-> 0]
    /\ now = 0
    /\ pc = [c \in Clients |-> "init"]
    /\ timer = [c \in Clients |-> Timer_init]
    /\ req = [c \in Clients |-> [method |-> "", outcome |-> "", called |-> FALSE]]
    /\ seen = [c \in Clients |-> "pending"]

\* self._send(*messages)
UdpSendCall(c) ==
    /\ c = 1
    /\ pc[c] = "init"
    /\ client' = [client EXCEPT ![c] =
           UDPClient_send(@, Val(@.pipeline), cfg.maxudpsize)]
    /\ pc' = [pc EXCEPT ![c] = "done"]
    /\ UNCHANGED <<cfg, plugin, handle, scope, nops, now, timer, req, seen>>

NextUdp == \E c \in Clients : UdpSendCall(c)

SpecUdp == InitUdp /\ [][NextUdp]_vars

(***************************************************************************)
(* A connected TCP client on its own: any buffered lines (or no pipeline), *)
(* any maxudpsize.                                                         *)
(***************************************************************************)
InitTcp ==
    /\ cfg \in [fail_silently : {FALSE}, maxudpsize : 1..MaxSize, prefix : Prefixes]
    /\ plugin = Setup(<<[name |-> "b", scheme |-> "tcp"]>>, "")
    /\ handle = [c \in Clients |-> IF c = 1 THEN "client" ELSE "unset"]
    \* _send is the same method in both TCP classes
    /\ \E cls \in {"TCPClient", "TCPStatsdClient"},
          pipeline \in {None} \cup {Some(m) : m \in SeqsUpTo(Lines, MaxLines)} :
          /\ IsNone(pipeline) \/ cls = "TCPClient"
          /\ client = [c \in Clients |->
                       IF c = 1
                       THEN [Connect(AbstractClient_init(cls), cfg, TRUE)
                                EXCEPT !.pipeline = pipeline]
                       ELSE AbstractClient_init("none")]
    /\ scope = [c \in Clients |-> NoScope]
    /\ nops = [c \in Clients |-> 0]
    /\ now = 0
    /\ pc = [c \in Clients |-> "init"]
    /\ timer = [c \in Clients |-> Timer_init]
    /\ req = [c \in Clients |-> [method |-> "", outcome |-> "", called |-> FALSE]]
    /\ seen = [c \in Clients |-> "pending"]

\* client.disconnect() on the client holding a pipeline
TcpFlush(c) ==
    /\ c = 1
    /\ pc[c] = "init"
    /\ ~IsNone(client[c].pipeline)
    /\ client' = [client EXCEPT ![c] = Disconnect(@, cfg)]
    /\ scope' = [scope EXCEPT ![c] = Before(c)]
    /\ pc' = [pc EXCEPT ![c] = "done"]
    /\ UNCHANGED <<cfg, plugin, handle, nops, now, timer, req, seen>>

\* client.send(stat, value) on the client without a pipeline
TcpSend(c) ==
    /\ c = 1
    /\ pc[c] = "init"
    /\ IsNone(client[c].pipeline)
    /\ \E stat \in Stats, value \in Values, t \in now..MaxTime :
          /\ now' = t
          /\ client' = [client EXCEPT ![c] = Send(@, cfg, stat, value, 100, 0, t)]
          /\ scope' = [scope EXCEPT ![c] =
                 [Before(c) EXCEPT !.line = build_message(client[c].cls, cfg.prefix,
                                                          stat, value, t)]]
    /\ pc' = [pc EXCEPT ![c] = "done"]
    /\ UNCHANGED <<cfg, plugin, handle, nops, timer, req, seen>>

NextTcp ==
    \E c \in Clients :
        \/ TcpFlush(c)
        \/ TcpSend(c)

SpecTcp == InitTcp /\ [][NextTcp]_vars

(***************************************************************************)
(* Timers made by Plugin.time(), each driven through its methods.          *)
(* scope[c].open: start() ran and stop() has not run since;                *)
(* scope[c].with: inside a with block; seen[c]: how the last call ended.   *)
(***************************************************************************)
InitTimer ==
    /\ cfg \in [fail_silently : {FALSE}, maxudpsize : {DefaultUdpSize}, prefix : Prefixes]
    /\ plugin = Setup(<<>>, "")
    /\ Fresh

\* Timer.__exit__(typ, value, tb): the bare raise re-raises the exception of
\* the with body before self.stop() is reached
Timer_exit(tm, value, t) == IF value THEN tm ELSE Timer_stop(tm, t)

TimerCalled(c, t) ==
    /\ nops[c] < MaxOps
    /\ nops' = [nops EXCEPT ![c] = @ + 1]
    /\ now' = t
    /\ UNCHANGED <<cfg, plugin, handle, client, pc, req>>

\* timer.start()
TimerStart(c) ==
    \E t \in now..MaxTime :
        /\ TimerCalled(c, t)
        /\ timer' = [timer EXCEPT ![c] = Timer_start(@, t)]
        /\ scope' = [scope EXCEPT ![c].open = TRUE]
        /\ seen' = [seen EXCEPT ![c] = "start"]

\* timer.stop(); before any start() the subtraction from None is a TypeError
TimerStop(c) ==
    \E t \in now..MaxTime :
        /\ TimerCalled(c, t)
        /\ IF IsNone(timer[c].start)
           THEN /\ seen' = [seen EXCEPT ![c] = "TypeError"]
                /\ UNCHANGED <<timer, scope>>
           ELSE /\ timer' = [timer EXCEPT ![c] = Timer_stop(@, t)]
                /\ scope' = [scope EXCEPT ![c].open = FALSE]
                /\ seen' = [seen EXCEPT ![c] = "stop"]

\* with timer: the block is entered
TimerEnter(c) ==
    /\ ~scope[c].with
    /\ \E t \in now..MaxTime :
          /\ TimerCalled(c, t)
          /\ timer' = [timer EXCEPT ![c] = Timer_start(@, t)]
          /\ scope' = [scope EXCEPT ![c].open = TRUE, ![c].with = TRUE]
          /\ seen' = [seen EXCEPT ![c] = "__enter__"]

\* the block is left, normally or by an exception of its body
TimerExit(c) ==
    /\ scope[c].with
    /\ \E value \in BOOLEAN, t \in now..MaxTime :
          /\ TimerCalled(c, t)
          /\ timer' = [timer EXCEPT ![c] = Timer_exit(@, value, t)]
          /\ scope' = [scope EXCEPT ![c].with = FALSE,
                                    ![c].open = IF value THEN @ ELSE FALSE]
          /\ seen' = [seen EXCEPT ![c] = IF value THEN "BodyError" ELSE "__exit__"]

NextTimer ==
    \E c \in Clients :
        \/ TimerStart(c)
        \/ TimerStop(c)
        \/ TimerEnter(c)
        \/ TimerExit(c)

SpecTimer == InitTimer /\ [][NextTimer]_vars

(***************************************************************************)
(* The StatsD helpers, one call on a connected StatsD client.  req[c]      *)
(* keeps the call and its arguments.                                       *)
(***************************************************************************)
Helpers == {"incr", "decr", "timing", "gauge"}
Counts == {1, 3}

InitStatsd ==
    /\ cfg \in [fail_silently : {FALSE}, maxudpsize : {DefaultUdpSize}, prefix : Prefixes]
    /\ \E scheme \in {"udp+statsd", "tcp+statsd"} :
          /\ plugin = Setup(<<[name |-> "b", scheme |-> scheme]>>, "")
          /\ client = [c \in Clients |->
                 Connect(AbstractClient_init(backends_schemas(scheme)), cfg, TRUE)]
    /\ handle = [c \in Clients |-> "client"]
    /\ scope = [c \in Clients |-> NoScope]
    /\ nops = [c \in Clients |-> 0]
    /\ now = 0
    /\ pc = [c \in Clients |-> "init"]
    /\ timer = [c \in Clients |-> Timer_init]
    /\ req = [c \in Clients |-> [method |-> "", outcome |-> "", called |-> FALSE]]
    /\ seen = [c \in Clients |-> "pending"]

\* client.incr / decr / timing / gauge (stat, count, rate)
StatsdCall(c) ==
    /\ pc[c] = "init"
    /\ \E helper \in Helpers, stat \in Stats, count \in Counts,
          rate \in Rates, draw \in Draws :
          /\ client' = [client EXCEPT ![c] =
                 IF helper = "incr" THEN Incr(@, cfg, stat, count, rate, draw, now)
                 ELSE IF helper = "decr" THEN Decr(@, cfg, stat, count, rate, draw, now)
                 ELSE IF helper = "timing" THEN Timing(@, cfg, stat, count, rate, draw, now)
                 ELSE Gauge(@, cfg, stat, count, rate, draw, now)]
          /\ req' = [req EXCEPT ![c] =
                 [method |-> helper, outcome |-> "", called |-> TRUE,
                  stat |-> stat, count |-> count, rate |-> rate]]
    /\ pc' = [pc EXCEPT ![c] = "done"]
    /\ UNCHANGED <<cfg, plugin, handle, scope, nops, now, timer, seen>>

NextStatsd == \E c \in Clients : StatsdCall(c)

SpecStatsd == InitStatsd /\ [][NextStatsd]_vars

(***************************************************************************)
(* The facade: callers of Plugin.send, and callers that take a client from *)
(* Plugin.client() into a with block.  A stat may hold a character outside *)
(* ASCII, on which the transmit primitive raises.                          *)
(***************************************************************************)
FacadeOps == {"send", "with"}
FacadeStats == Stats \cup {<<NonAscii>>}

\* Plugin.send(stat, value, backend) once self.client(backend) has given res:
\* the client it leaves and what the caller gets (a return value or an error)
Plugin_send(res, c, stat, value, t) ==
    IF res.handle = "False"
    THEN [obj |-> res.obj, result |-> "False"]
    ELSE IF res.handle # "client"
    THEN [obj |-> res.obj, result |-> res.handle]
    ELSE LET sent == Send(res.obj, c, stat, value, 100, 0, t)
         IN  IF sent.last.val = "UnicodeEncodeError"
             \* client.send raised: client.disconnect() is not reached
             THEN [obj |-> sent, result |-> "UnicodeEncodeError"]
             ELSE LET closed == Disconnect(sent, c)
                  IN  [obj |-> closed, result |-> closed.last.val]

\* with (yield from plugin.client(backend)) as client: two sends in the body
WithBlock(res, c, stat, value, t) ==
    IF res.handle = "False"
    THEN [obj |-> res.obj, result |-> "AttributeError"]
    ELSE IF res.handle # "client"
    THEN [obj |-> res.obj, result |-> res.handle]
    ELSE LET entered == Pipe(res.obj)
             first == Send(entered, c, stat, value, 100, 0, t)
             second == Send(first, c, stat, value, 100, 0, t)
             left == Exit(second, c, FALSE)
         IN  [obj |-> left, result |-> left.last.val]

\* the call runs from the client it was given to its end
FacadeRun(c, res, op, stat, t) ==
    LET value == CHOOSE v \in Values : TRUE
        run == IF op = "send" THEN Plugin_send(res, cfg, stat, value, t)
               ELSE WithBlock(res, cfg, stat, value, t)
        line == build_message(res.obj.cls, cfg.prefix, stat, value, t)
    IN  /\ handle' = [handle EXCEPT ![c] = res.handle]
        /\ client' = [client EXCEPT ![c] = run.obj]
        /\ seen' = [seen EXCEPT ![c] = run.result]
        /\ scope' = [scope EXCEPT ![c] =
               [NoScope EXCEPT !.lines = IF op = "send" THEN <<line>> ELSE <<line, line>>,
                               !.line = stat]]
        /\ req' = [req EXCEPT ![c].method = op, ![c].called = TRUE]
        /\ pc' = [pc EXCEPT ![c] = "done"]

\* the call begins; client() returns at once when there is nothing to
\* connect (no backend, or a name that is not a backend)
FacadeBegin(c) ==
    /\ pc[c] = "init"
    /\ plugin.error = "None"
    /\ \E op \in FacadeOps, name \in Names, stat \in FacadeStats, t \in now..MaxTime :
          LET n == IF name # "" THEN name ELSE plugin.default
          IN  /\ now' = t
              /\ IF n = "" \/ n \notin BackendNames(plugin.backends)
                 THEN FacadeRun(c, PluginClient(plugin, cfg, name, TRUE), op, stat, t)
                 ELSE /\ pc' = [pc EXCEPT ![c] = "connect"]
                      /\ req' = [req EXCEPT ![c].method = op]
                      /\ scope' = [scope EXCEPT ![c].line = stat]
                      /\ UNCHANGED <<handle, client, seen>>
    /\ UNCHANGED <<cfg, plugin, nops, timer>>

\* the connect of client() ends, well or with an OSError
FacadeConnected(c) ==
    /\ pc[c] = "connect"
    /\ \E ok \in BOOLEAN :
          FacadeRun(c, PluginClient(plugin, cfg, "", ok), req[c].method, scope[c].line, now)
    /\ UNCHANGED <<cfg, plugin, nops, now, timer>>

NextFacade ==
    \E c \in Clients :
        \/ FacadeBegin(c)
        \/ FacadeConnected(c)

SpecFacade == Init /\ [][NextFacade]_vars

(***************************************************************************)
(* Reading the wire                                                        *)
(***************************************************************************)
RECURSIVE Concat(_)
\* the payloads of a list of transport calls, joined
Concat(calls) ==
    IF calls = <<>> THEN <<>> ELSE Head(calls).data \o Concat(Tail(calls))

RECURSIVE SplitFrom(_, _)
SplitFrom(bytes, piece) ==
    IF bytes = <<>> THEN <<piece>>
    ELSE IF Head(bytes) = NL THEN <<piece>> \o SplitFrom(Tail(bytes), <<>>)
    ELSE SplitFrom(Tail(bytes), Append(piece, Head(bytes)))

\* bytes.split(b'\n'): the pieces between newlines, the last one is what
\* follows the final newline
Split(bytes) == SplitFrom(bytes, <<>>)

\* a payload carries exactly these lines, each ended by one newline
Carries(calls, lines) == Split(Concat(calls)) = lines \o << <<>> >>

\* the transport calls made by the last call on the client
Newest(c) == SubSeq(client[c].wire, scope[c].mark + 1, Len(client[c].wire))
Front(calls) == SubSeq(calls, 1, Len(calls) - 1)
Writes(calls, tr) ==
    \A i \in 1..Len(calls) : calls[i].op \in {"sendto", "write"} /\ calls[i].tr = tr
Wired(c) == IsUDP(client[c].cls) \/ IsTCP(client[c].cls)

(***************************************************************************)
(* C1 .. C10                                                               *)
(***************************************************************************)
\* C1: when the body of a with block raises, __exit__ has flushed the
\* buffered lines and disconnected the client (transport closed, transport
\* and pipeline None) by the time the exception reaches the caller.
ClaimC1 ==
    \A c \in Clients :
        (client[c].last.op = "__exit__" /\ client[c].last.val = "BodyError")
        => /\ client[c].transport = NoTransport
           /\ IsNone(client[c].pipeline)
           /\ scope[c].preT # NoTransport
              => /\ Newest(c) # <<>>
                 /\ Newest(c)[Len(Newest(c))].op = "close"

\* C2: every datagram UDPClient._send passes to sendto is at most
\* maxudpsize long, whatever the lines.
ClaimC2 ==
    \A i \in 1..Len(client[1].wire) :
        client[1].wire[i].op = "sendto"
        => Len(client[1].wire[i].data) <= cfg.maxudpsize

\* C3: the datagrams of one UDPClient._send, joined in emission order and
\* split on newline, are the lines passed in, in order; every datagram
\* holds whole lines only.
ThmC3 ==
    pc[1] = "done"
    => /\ Writes(client[1].wire, 1)
       /\ Carries(client[1].wire, Val(client[1].pipeline))
       /\ \A i \in 1..Len(client[1].wire) :
             LET data == client[1].wire[i].data
             IN  data = <<>> \/ data[Len(data)] = NL

WitC3 ==
    /\ pc[1] = "done"
    /\ Len(Val(client[1].pipeline)) = 3
    /\ Len(client[1].wire) = 2
    /\ \A i \in 1..2 : client[1].wire[i].data # <<>>

\* C4: with fail_silently, a failed connect makes Plugin.client() yield a
\* client object (never False, never an error).
ClaimC4 ==
    \A c \in Clients :
        cfg.fail_silently => handle[c] \notin {"False", "OSError"}

\* C5: with fail_silently, every request that went through the middleware
\* had its handler called and shows the handler's own outcome to the caller.
ClaimC5 ==
    \A c \in Clients :
        (cfg.fail_silently /\ pc[c] = "done")
        => req[c].called /\ seen[c] = req[c].outcome

\* the three lines of one request, as the StatsD protocol writes them
MethodLine(c) == cfg.prefix \o <<"request.method.", req[c].method, ":", "1", "|c">>
OutcomeLine(c) ==
    IF req[c].outcome = "Exception"
    THEN cfg.prefix \o <<"response.exception", ":", "1", "|c">>
    ELSE cfg.prefix \o <<"response.status.", StatusOf(req[c].outcome), ":", "1", "|c">>
TimeLine(c) == cfg.prefix \o <<"response.time", ":", ToString(Val(timer[c].ms)), "|ms">>
RequestLines(c) == <<MethodLine(c), OutcomeLine(c), TimeLine(c)>>
RequestBytes(c) == Len(MethodLine(c)) + Len(OutcomeLine(c)) + Len(TimeLine(c)) + 3

\* C6: a request served through the middleware on a connected client, on
\* each of the three handler outcomes: the method counter, the outcome
\* counter and the timing are buffered in this order, nothing is sent before
\* the end of the request, one flush then sends them (one write, or one
\* datagram when they fit in maxudpsize), the transport is closed after the
\* flush, and the caller sees the handler's outcome.
ThmC6 ==
    \A c \in Clients :
        (pc[c] = "done" /\ handle[c] = "client" /\ Wired(c))
        => LET calls == client[c].wire
           IN  /\ scope[c].preP = Some(RequestLines(c))
               /\ scope[c].mark = 0
               /\ calls # <<>>
               /\ calls[Len(calls)] = [op |-> "close", tr |-> 1, data |-> <<>>]
               /\ Writes(Front(calls), 1)
               /\ Carries(Front(calls), RequestLines(c))
               /\ IsTCP(client[c].cls) => Len(calls) = 2
               /\ RequestBytes(c) <= cfg.maxudpsize => Len(calls) = 2
               /\ client[c].transport = NoTransport
               /\ IsNone(client[c].pipeline)
               /\ seen[c] = req[c].outcome

WitC6 ==
    /\ pc[1] = "done" /\ pc[2] = "done"
    /\ handle[1] = "client" /\ handle[2] = "client"
    /\ IsUDP(client[1].cls)
    /\ req[1].outcome = "HTTPException" /\ req[2].outcome = "Exception"
    /\ Len(client[1].wire) = 2 /\ Len(client[2].wire) = 2

\* disconnect() on a connected UDP or TCP client: the buffered lines are
\* sent, then the transport is closed, then transport and pipeline are None
DisconnectFlushes(c) ==
    (client[c].last.op = "disconnect" /\ Wired(c) /\ scope[c].preT # NoTransport)
    => LET calls == Newest(c)
           lines == IF IsNone(scope[c].preP) THEN <<>> ELSE Val(scope[c].preP)
       IN  /\ calls # <<>>
           /\ calls[Len(calls)] = [op |-> "close", tr |-> scope[c].preT, data |-> <<>>]
           /\ Writes(Front(calls), scope[c].preT)
           /\ IF lines = <<>> THEN Front(calls) = <<>> ELSE Carries(Front(calls), lines)
           /\ client[c].transport = NoTransport
           /\ IsNone(client[c].pipeline)
           /\ client[c].last.val = "None"

\* a send on a UDP or TCP client that has neither transport nor pipeline
SentAfterDisconnect(c) ==
    /\ client[c].last.op = "send"
    /\ Wired(c)
    /\ scope[c].preT = NoTransport
    /\ IsNone(scope[c].preP)

\* C7 as stated: disconnect() flushes, closes and clears; every later send,
\* whatever its rate, does no I/O and returns False.
ClaimC7 ==
    \A c \in Clients :
        /\ DisconnectFlushes(c)
        /\ SentAfterDisconnect(c)
           => /\ Newest(c) = <<>>
              /\ client[c].last.val = "False"

\* C7 amended: disconnect() flushes, closes and clears; every later send
\* does no I/O, raises nothing, leaves the client disconnected and returns
\* False, except that a send dropped by sampling returns None.
ThmC7 ==
    \A c \in Clients :
        /\ DisconnectFlushes(c)
        /\ SentAfterDisconnect(c)
           => /\ Newest(c) = <<>>
              /\ client[c].transport = NoTransport
              /\ IsNone(client[c].pipeline)
              /\ client[c].last.val = IF scope[c].skip THEN "None" ELSE "False"

WitC7 ==
    /\ SentAfterDisconnect(1)
    /\ client[1].last.val = "False"
    /\ scope[1].lines # <<>>
    /\ Len(client[1].wire) >= 2
    /\ client[1].wire[Len(client[1].wire)].op = "close"
    /\ client[1].wire[1].op \in {"sendto", "write"}

\* C8: a send that renders a line appends it at the end of an open
\* pipeline and does no I/O; without a pipeline, on a connected client, it
\* transmits that line at once; the flush of a batch scope transmits the
\* lines sent in the scope, in send order.
ThmC8 ==
    \A c \in Clients :
        /\ (client[c].last.op = "send" /\ ~scope[c].skip /\ ~IsNone(scope[c].preP))
           => /\ Newest(c) = <<>>
              /\ client[c].pipeline = Some(Append(Val(scope[c].preP), scope[c].line))
        /\ (client[c].last.op = "send" /\ ~scope[c].skip /\ IsNone(scope[c].preP)
              /\ Wired(c) /\ scope[c].preT # NoTransport)
           => /\ Newest(c) # <<>>
              /\ Writes(Newest(c), scope[c].preT)
              /\ Carries(Newest(c), <<scope[c].line>>)
        /\ (client[c].last.op \in {"disconnect", "__exit__"} /\ client[c].last.val = "None"
              /\ Wired(c) /\ scope[c].preT # NoTransport /\ ~IsNone(scope[c].preP))
           => /\ Writes(Front(Newest(c)), scope[c].preT)
              /\ IF scope[c].lines = <<>>
                 THEN Front(Newest(c)) = <<>>
                 ELSE Carries(Front(Newest(c)), scope[c].lines)

WitC8 ==
    /\ client[1].last.op = "__exit__"
    /\ client[1].last.val = "None"
    /\ Wired(1)
    /\ Len(scope[1].lines) = 2
    /\ scope[1].lines[1] # scope[1].lines[2]
    /\ Len(Newest(1)) >= 2

\* the endpoint the client opened last has not been closed
Connected(c) ==
    /\ client[c].opened > 0
    /\ \A i \in 1..Len(client[c].wire) :
          ~(client[c].wire[i].op = "close" /\ client[c].wire[i].tr = client[c].opened)

\* C9: in every state of a client the pipeline is non-null exactly while a
\* batch scope is open and the transport is non-null exactly while the
\* client is connected.
ClaimC9 ==
    \A c \in Clients :
        handle[c] = "client"
        => /\ ~IsNone(client[c].pipeline) <=> scope[c].open
           /\ client[c].transport # NoTransport <=> Connected(c)

\* C10 as stated: on a NullClient every send returns False, nothing is
\* ever transmitted and no call raises.
ClaimC10 ==
    \A c \in Clients :
        client[c].cls = "NullClient"
        => /\ client[c].wire = <<>>
           /\ client[c].last.val \notin {"AttributeError", "OSError", "KeyError"}
           /\ client[c].last.op = "send" => client[c].last.val = "False"

\* C10 amended: on a NullClient nothing is ever transmitted, no call
\* raises, and a send returns False unless it was dropped by sampling or
\* buffered in an open pipeline, when it returns None.
ThmC10 ==
    \A c \in Clients :
        client[c].cls = "NullClient"
        => /\ client[c].wire = <<>>
           /\ client[c].transport = NoTransport
           /\ client[c].last.val \notin {"AttributeError", "OSError", "KeyError"}
           /\ client[c].last.op = "send"
              => client[c].last.val =
                    IF scope[c].skip \/ ~IsNone(scope[c].preP) THEN "None" ELSE "False"

WitC10 ==
    /\ client[1].cls = "NullClient"
    /\ client[1].last.op = "send"
    /\ client[1].last.val = "False"
    /\ nops[1] = MaxOps
    /\ scope[1].lines # <<>>

\* a call of the facade had no backend it could use: none configured (or a
\* null one), or a connect that failed with fail_silently set
Unusable(c) ==
    \/ client[c].cls = "NullClient"
    \/ /\ cfg.fail_silently
       /\ handle[c] \in {"False", "OSError"}

\* C11: Plugin.send returns False whenever there is no usable backend (none
\* configured, a null backend, or a failed connect under fail_silently);
\* nothing is transmitted and no error escapes.
ClaimC11 ==
    \A c \in Clients :
        (pc[c] = "done" /\ req[c].method = "send" /\ handle[c] # "KeyError" /\ Unusable(c))
            => /\ seen[c] = "False"
               /\ client[c].wire = <<>>

\* C12: a connection opened by the facade is closed on every exit path: a
\* finished Plugin.send or with block that had connected has closed its
\* transport, also when the transmit raises, and a Plugin.send that ends
\* without an error has transmitted exactly its one line.
ClaimC12 ==
    \A c \in Clients :
        (pc[c] = "done" /\ client[c].opened > 0)
            => /\ ~Connected(c)
               /\ (req[c].method = "send" /\ seen[c] = "None")
                      => Carries(Front(client[c].wire), scope[c].lines)


RECURSIVE Terminated(_)
\* the lines in order, each followed by one newline
Terminated(lines) ==
    IF lines = <<>> THEN <<>>
    ELSE Head(lines) \o <<NL>> \o Terminated(Tail(lines))

\* C13: flushing a TCP client with n >= 1 buffered lines makes exactly one
\* transport.write whose payload is the lines in insertion order, each
\* followed by one newline, whatever maxudpsize is, and no other write; an
\* immediate send makes exactly one write of the one newline-ended line.
ThmC13 ==
    \A c \in Clients :
        (pc[c] = "done" /\ IsTCP(client[c].cls)) =>
            /\ (client[c].last.op = "disconnect" /\ Val(scope[c].preP) # <<>>)
                  => client[c].wire =
                        <<[op |-> "write", tr |-> 1, data |-> Terminated(Val(scope[c].preP))],
                          [op |-> "close", tr |-> 1, data |-> None]>>
            /\ client[c].last.op = "send"
                  => client[c].wire =
                        <<[op |-> "write", tr |-> 1, data |-> scope[c].line \o <<NL>>]>>

\* a flush of several lines that are together longer than maxudpsize
WitC13 ==
    /\ pc[1] = "done"
    /\ client[1].last.op = "disconnect"
    /\ Len(Val(scope[1].preP)) >= 2
    /\ Len(Terminated(Val(scope[1].preP))) > cfg.maxudpsize
    /\ Len(client[1].wire) = 2


\* C14: start() clears the previous result; the elapsed value is unset from
\* start() until the next stop() and is set by stop(); in scoped use,
\* entering starts the timer and leaving stops it (elapsed value set) on the
\* normal and on the exceptional exit, the error being re-raised.
ClaimC14 ==
    \A c \in Clients :
        /\ seen[c] \in {"start", "__enter__"} => IsNone(timer[c].ms)
        /\ scope[c].open => IsNone(timer[c].ms)
        /\ seen[c] \in {"stop", "__exit__", "BodyError"} => ~IsNone(timer[c].ms)


\* the StatsD line the claim gives for a helper call
StatsDLine(r) ==
    cfg.prefix \o r.stat \o <<":">>
        \o (IF r.method = "incr" THEN <<ToString(r.count), "|c">>
            ELSE IF r.method = "decr" THEN <<ToString(-r.count), "|c">>
            ELSE IF r.method = "timing" THEN <<ToString(r.count), "|ms">>
            ELSE <<ToString(r.count), "|g">>)
        \o (IF r.rate < 100 THEN <<"|@", RateStr(r.rate)>> ELSE <<>>)

\* C15: a line transmitted by incr, decr, timing or gauge is prefix + stat +
\* ':' + value, the value being '<count>|c', '<delta>|ms' or '<value>|g'
\* (decr as incr of -count), with '|@<rate>' appended exactly when
\* rate < 1, and it is ended by one newline on the wire.
ClaimC15 ==
    \A c \in Clients :
        (pc[c] = "done" /\ client[c].wire # <<>>)
            => Carries(client[c].wire, <<StatsDLine(req[c])>>)


\* the backend name that client(name) resolves: name or self.default
Resolved(c) == IF req[c].method # "" THEN req[c].method ELSE plugin.default

\* C16: client() for a name that is not among the backends fails with a
\* PluginException and opens no connection; a configured default that is not
\* among the backends fails with the same error at setup; a backend with an
\* unrecognized scheme gets the TCP client and one with scheme null the
\* no-op client.
ClaimC16 ==
    /\ (plugin.default # "" /\ plugin.default \notin BackendNames(plugin.backends))
          => plugin.error = "PluginException"
    /\ \A c \in Clients :
          req[c].called =>
             /\ (Resolved(c) # "" /\ Resolved(c) \notin BackendNames(plugin.backends))
                   => /\ handle[c] = "PluginException"
                      /\ client[c].opened = 0
             /\ Resolved(c) \in BackendNames(plugin.backends) =>
                   LET scheme == BackendScheme(plugin.backends, Resolved(c))
                   IN  /\ scheme = "null" => client[c].cls = "NullClient"
                       /\ scheme \notin {"null", "tcp", "udp", "tcp+statsd", "udp+statsd"}
                             => client[c].cls = "TCPClient"


\* C17: UDPClient._send never passes an empty datagram to sendto: every
\* datagram holds at least one whole newline-ended line, and there are at
\* most as many datagrams as lines.
ClaimC17 ==
    pc[1] = "done"
    => /\ \A i \in 1..Len(client[1].wire) :
             LET data == client[1].wire[i].data
             IN  /\ data # <<>>
                 /\ data[Len(data)] = NL
       /\ Len(client[1].wire) <= Len(Val(client[1].pipeline))


\* C18: disconnect() on a UDP or TCP client that has no transport (already
\* disconnected, with or without a pipeline opened and filled since) raises
\* no error, does no I/O and leaves transport and pipeline cleared.
ClaimC18 ==
    \A c \in Clients :
        (Wired(c) /\ client[c].last.op = "disconnect" /\ scope[c].preT = NoTransport)
            => /\ client[c].last.val = "None"
               /\ Newest(c) = <<>>
               /\ client[c].transport = NoTransport
               /\ IsNone(client[c].pipeline)


\* a disconnect() that returned, on a UDP or TCP client that was connected;
\* scope[c].lines and scope[c].held are those of the pipeline it found, if any
Flushed(c) ==
    /\ Wired(c)
    /\ client[c].last = [op |-> "disconnect", val |-> "None"]
    /\ scope[c].preT # NoTransport

\* C19 as stated: no buffered line is lost: when disconnect() returns on a
\* connected client, every line that a pipeline has taken since one was
\* opened has been transmitted, also the lines taken before a later pipe()
\* or __enter__.
ClaimC19 ==
    \A c \in Clients :
        Flushed(c) =>
            LET held == IF IsNone(scope[c].preP) THEN <<>> ELSE scope[c].held
            IN  IF held = <<>> THEN Front(Newest(c)) = <<>>
                ELSE Carries(Front(Newest(c)), held)

\* C19 amended: pipe() and __enter__ open an empty buffer and transmit
\* nothing, so the lines a pipeline held are dropped; when disconnect()
\* returns on a connected client the lines taken since the last pipe() or
\* __enter__ have been transmitted once, in order, to the transport the
\* client had, and no pipeline is left to transmit them again.
ThmC19 ==
    \A c \in Clients :
        /\ (Wired(c) /\ client[c].last.op \in {"pipe", "__enter__"})
              => /\ client[c].pipeline = Some(<<>>)
                 /\ Newest(c) = <<>>
        /\ Flushed(c)
              => LET lines == IF IsNone(scope[c].preP) THEN <<>> ELSE scope[c].lines
                 IN  /\ Writes(Front(Newest(c)), scope[c].preT)
                     /\ IF lines = <<>> THEN Front(Newest(c)) = <<>>
                        ELSE Carries(Front(Newest(c)), lines)
                     /\ IsNone(client[c].pipeline)

\* a line was taken, pipe() or __enter__ ran again and disconnect() closed
\* the transport without transmitting the line
WitC19 ==
    /\ Flushed(1)
    /\ ~IsNone(scope[1].preP)
    /\ scope[1].held # <<>>
    /\ scope[1].lines = <<>>
    /\ Len(Newest(1)) = 1
    /\ client[1].wire[Len(client[1].wire)].op = "close"


\* C20: two requests served concurrently through the middleware are
\* isolated: each has its own Client with its own pipeline and transport;
\* under every interleaving at the suspension points, while a request waits
\* in its handler its client stays connected and holds its own method line
\* only, whatever the other request does, and the flush of a request carries
\* exactly its own three lines and closes its own transport only.
ThmC20 ==
    \A c \in Clients :
        LET own == client[ClientOf(c)]
        IN  (handle[c] = "client" /\ Wired(c)) =>
               /\ pc[c] = "handler"
                     => /\ own.transport = own.opened
                        /\ own.pipeline = Some(<<MethodLine(c)>>)
                        /\ own.wire = <<>>
               /\ pc[c] = "done"
                     => /\ Carries(Front(own.wire), RequestLines(c))
                        /\ \A i \in 1..Len(own.wire) :
                              (own.wire[i].op = "close") = (i = Len(own.wire))

\* the first request has flushed and closed while the second, with another
\* method, still waits in its handler
WitC20 ==
    /\ handle[1] = "client" /\ handle[2] = "client"
    /\ Wired(1) /\ Wired(2)
    /\ pc[1] = "done" /\ pc[2] = "handler"
    /\ req[1].method # req[2].method
    /\ client[1].transport = NoTransport
    /\ client[2].transport # NoTransport


====
